---- MODULE Spec2Model ----
(***************************************************************************)
(* State-machine model of the feedback backend's request handlers          *)
(* (app/routers/feedback.py, app/routers/users.py) over the three tables   *)
(* of app/models.py: users, feedback, feedback_requests.                   *)
(*                                                                         *)
(* A table is a sequence of rows; a row's id is its index (serial primary  *)
(* key, and no handler deletes a row).  Every handler is one atomic action *)
(* (one request = one session = one commit); SpecRace splits               *)
(* create_feedback_request at the point between its SELECT and its INSERT. *)
(* last is the response to the latest request, now the reading of the      *)
(* clock, pc the position of each worker of SpecRace.                      *)
(*                                                                         *)
(* The components share only the users table, so each is explored on its   *)
(* own: SpecOrg (org chart and create_feedback), SpecFeedback,             *)
(* SpecRequest (requests under changes of manager), SpecLifecycle          *)
(* (requests as time passes), SpecRace; Spec is their union.               *)
(***************************************************************************)
EXTENDS Integers, Sequences, FiniteSets, TLC

VARIABLES users, feedback, requests, now, last, pc

vars == <<users, feedback, requests, now, last, pc>>

----------------------------------------------------------------------------
(* Bounds *)

MaxFeedback == 1
MaxRequests == 2
MaxTime     == 2

(* records in the feedback table where one record is told from another *)
MaxContent == MaxFeedback + 1

----------------------------------------------------------------------------
(* Column values *)

NULL == 0

ADMIN    == "admin"
MANAGER  == "manager"
EMPLOYEE == "employee"
UserRole == {ADMIN, MANAGER, EMPLOYEE}

POSITIVE == "positive"
NEUTRAL  == "neutral"
NEGATIVE == "negative"
SentimentType == {POSITIVE, NEUTRAL, NEGATIVE}

PENDING   == "pending"
COMPLETED == "completed"
CANCELLED == "cancelled"

(* HTTP status of the response; ServerError is the unhandled IntegrityError *)
(* of a commit the store rejects                                            *)
OK          == "200"
BadRequest  == "400"
Forbidden   == "403"
NotFound    == "404"
ServerError == "500"

----------------------------------------------------------------------------
(* Rows *)

User(email, full_name, role, manager_id) ==
    [email |-> email, full_name |-> full_name, role |-> role,
     manager_id |-> manager_id, is_active |-> TRUE]

Feedback(id, manager_id, employee_id, strengths, areas_to_improve, overall_sentiment) ==
    [id |-> id, manager_id |-> manager_id, employee_id |-> employee_id,
     strengths |-> strengths, areas_to_improve |-> areas_to_improve,
     overall_sentiment |-> overall_sentiment,
     acknowledged |-> FALSE, acknowledged_at |-> NULL]

FeedbackRequest(id, employee_id, manager_id, message) ==
    [id |-> id, employee_id |-> employee_id, manager_id |-> manager_id,
     message |-> message, status |-> PENDING, completed_at |-> NULL]

UserIds == DOMAIN users

(* an id that is in no table: a lookup by it finds no row *)
MissingUserId == Len(users) + 1
(* the loop over update.dict() without exclude_unset: every field of the   *)
(* schema is written, the absent ones blank                                *)
SetAttrs_Overwrite(row, upd) ==
    [f \in DOMAIN row |->
        IF f \in DOMAIN upd THEN upd[f]
        ELSE IF f \in {"strengths", "areas_to_improve", "overall_sentiment"} THEN ""
        ELSE row[f]]

(* for field, value in update.dict(exclude_unset=True).items():            *)
(*     setattr(row, field, value)                                          *)
(* upd is the dict of the fields present in the request body.              *)
SetAttrs(row, upd) ==
    [f \in DOMAIN row |-> IF f \in DOMAIN upd THEN upd[f] ELSE row[f]]

Response(op, caller, arg, status) ==
    [op |-> op, caller |-> caller, arg |-> arg, status |-> status]

Idle == [state |-> "idle", caller |-> NULL, manager_id |-> NULL, message |-> "none"]

----------------------------------------------------------------------------
(* Request inputs *)

Texts    == {"t1", "t2"}
Messages == {"m1"}
Workers  == {"w1", "w2"}

EmptyUpdate == [f \in {} |-> NULL]

(* UserUpdate bodies that set manager_id (to a user id or to null) *)
ManagerUpdates ==
    {EmptyUpdate} \cup {[manager_id |-> m] : m \in UserIds \cup {NULL, MissingUserId}}

(* UserUpdate bodies: every choice of which of email, full_name and        *)
(* manager_id are present                                                  *)
Emails    == {"e1", "e4"}
FullNames == {"n9"}
ManagerIds == {NULL, 1, 2}
UserUpdates ==
    {EmptyUpdate}
      \cup {[email |-> e] : e \in Emails}
      \cup {[full_name |-> n] : n \in FullNames}
      \cup {[manager_id |-> m] : m \in ManagerIds}
      \cup {[email |-> e, full_name |-> n] : e \in Emails, n \in FullNames}
      \cup {[email |-> e, manager_id |-> m] : e \in Emails, m \in ManagerIds}
      \cup {[full_name |-> n, manager_id |-> m] : n \in FullNames, m \in ManagerIds}
      \cup {[email |-> e, full_name |-> n, manager_id |-> m] :
               e \in Emails, n \in FullNames, m \in ManagerIds}

(* FeedbackUpdate bodies that leave out, set one of, or set all of the     *)
(* three optional fields                                                   *)
ContentUpdates ==
    {EmptyUpdate, [strengths |-> "t2"], [areas_to_improve |-> "t2"],
     [overall_sentiment |-> NEGATIVE],
     [strengths |-> "t2", areas_to_improve |-> "t2", overall_sentiment |-> NEGATIVE]}

(* FeedbackUpdate bodies *)
FeedbackUpdates ==
    {EmptyUpdate}
      \cup {[strengths |-> s] : s \in Texts}
      \cup {[areas_to_improve |-> a] : a \in Texts}
      \cup {[overall_sentiment |-> o] : o \in SentimentType}
      \cup {[strengths |-> s, areas_to_improve |-> a, overall_sentiment |-> o] :
               s \in Texts, a \in Texts, o \in SentimentType}

----------------------------------------------------------------------------
Init ==
    /\ users = << User("e1", "n1", MANAGER, NULL), User("e2", "n2", MANAGER, 1),
                  User("e3", "n3", EMPLOYEE, 1) >>
    /\ feedback = << >>
    /\ requests = << >>
    /\ now = 1
    /\ last = Response("none", NULL, NULL, OK)
    /\ pc = [w \in Workers |-> Idle]

(* datetime.utcnow() advances between requests *)
Tick ==
    /\ now < MaxTime
    /\ now' = now + 1
    /\ UNCHANGED <<users, feedback, requests, last, pc>>

----------------------------------------------------------------------------
(* Identity & Org component *)

(* the commit fails when the store rejects the row: users.email is unique  *)
(* and not null, full_name is not null, manager_id references users.id     *)
UserRowAccepted(caller, row) ==
    /\ \A u \in UserIds \ {caller} : users[u].email # row.email
    /\ row.manager_id \in UserIds \cup {NULL}
(* update_current_user over user_update.dict() without exclude_unset: a    *)
(* manager_id that is absent from the body is written as its default None  *)
update_current_user_UnsetAsNone(caller, user_update) ==
    /\ LET row == [SetAttrs(users[caller], user_update) EXCEPT
                     !.manager_id = IF "manager_id" \in DOMAIN user_update
                                      THEN user_update.manager_id ELSE NULL]
       IN  IF UserRowAccepted(caller, row)
             THEN /\ users' = [users EXCEPT ![caller] = row]
                  /\ last' = Response("update_current_user", caller, NULL, OK)
             ELSE /\ last' = Response("update_current_user", caller, NULL, ServerError)
                  /\ UNCHANGED users
    /\ UNCHANGED <<feedback, requests, now, pc>>

update_current_user(caller, user_update) ==
    /\ IF UserRowAccepted(caller, SetAttrs(users[caller], user_update))
         THEN /\ users' = [users EXCEPT ![caller] = SetAttrs(users[caller], user_update)]
              /\ last' = Response("update_current_user", caller, NULL, OK)
         ELSE /\ last' = Response("update_current_user", caller, NULL, ServerError)
              /\ UNCHANGED users
    /\ UNCHANGED <<feedback, requests, now, pc>>

(* GET /users/team: reads the users table, writes nothing *)
get_team_members(caller) ==
    /\ IF users[caller].role # MANAGER
         THEN last' = Response("get_team_members", caller, NULL, Forbidden)
         ELSE last' = Response("get_team_members", caller, NULL, OK)
    /\ UNCHANGED <<users, feedback, requests, now, pc>>

----------------------------------------------------------------------------
(* Feedback component *)

(* create_feedback without the team check of lines 43-47 *)
create_feedback_NoTeamCheck(caller, employee_id, strengths, areas_to_improve, overall_sentiment) ==
    /\ IF users[caller].role # MANAGER
         THEN /\ last' = Response("create_feedback", caller, employee_id, Forbidden)
              /\ UNCHANGED feedback
         ELSE IF employee_id \notin UserIds
         THEN /\ last' = Response("create_feedback", caller, employee_id, NotFound)
              /\ UNCHANGED feedback
         ELSE /\ feedback' = Append(feedback,
                     Feedback(Len(feedback) + 1, caller, employee_id,
                              strengths, areas_to_improve, overall_sentiment))
              /\ last' = Response("create_feedback", caller, employee_id, OK)
    /\ UNCHANGED <<users, requests, now, pc>>

create_feedback(caller, employee_id, strengths, areas_to_improve, overall_sentiment) ==
    /\ IF users[caller].role # MANAGER
         THEN /\ last' = Response("create_feedback", caller, employee_id, Forbidden)
              /\ UNCHANGED feedback
         ELSE IF employee_id \notin UserIds
         THEN /\ last' = Response("create_feedback", caller, employee_id, NotFound)
              /\ UNCHANGED feedback
         ELSE IF users[employee_id].manager_id # caller
         THEN /\ last' = Response("create_feedback", caller, employee_id, Forbidden)
              /\ UNCHANGED feedback
         ELSE /\ feedback' = Append(feedback,
                     Feedback(Len(feedback) + 1, caller, employee_id,
                              strengths, areas_to_improve, overall_sentiment))
              /\ last' = Response("create_feedback", caller, employee_id, OK)
    /\ UNCHANGED <<users, requests, now, pc>>

(* update_feedback that writes the fields onto a fresh row: the column     *)
(* defaults (acknowledged = False, acknowledged_at = NULL) come back       *)
update_feedback_FreshRow(caller, feedback_id, feedback_update) ==
    /\ IF feedback_id \notin DOMAIN feedback
         THEN /\ last' = Response("update_feedback", caller, feedback_id, NotFound)
              /\ UNCHANGED feedback
         ELSE IF feedback[feedback_id].manager_id # caller
         THEN /\ last' = Response("update_feedback", caller, feedback_id, Forbidden)
              /\ UNCHANGED feedback
         ELSE /\ feedback' = [feedback EXCEPT ![feedback_id] =
                     [SetAttrs(feedback[feedback_id], feedback_update)
                        EXCEPT !.acknowledged = FALSE, !.acknowledged_at = NULL]]
              /\ last' = Response("update_feedback", caller, feedback_id, OK)
    /\ UNCHANGED <<users, requests, now, pc>>
(* update_feedback whose ownership test of lines 119-123 reads the         *)
(* employee's current manager instead of the record's manager_id           *)
update_feedback_CurrentManager(caller, feedback_id, feedback_update) ==
    /\ IF feedback_id \notin DOMAIN feedback
         THEN /\ last' = Response("update_feedback", caller, feedback_id, NotFound)
              /\ UNCHANGED feedback
         ELSE IF users[feedback[feedback_id].employee_id].manager_id # caller
         THEN /\ last' = Response("update_feedback", caller, feedback_id, Forbidden)
              /\ UNCHANGED feedback
         ELSE /\ feedback' = [feedback EXCEPT
                     ![feedback_id] = SetAttrs(feedback[feedback_id], feedback_update)]
              /\ last' = Response("update_feedback", caller, feedback_id, OK)
    /\ UNCHANGED <<users, requests, now, pc>>

update_feedback(caller, feedback_id, feedback_update) ==
    /\ IF feedback_id \notin DOMAIN feedback
         THEN /\ last' = Response("update_feedback", caller, feedback_id, NotFound)
              /\ UNCHANGED feedback
         ELSE IF feedback[feedback_id].manager_id # caller
         THEN /\ last' = Response("update_feedback", caller, feedback_id, Forbidden)
              /\ UNCHANGED feedback
         ELSE /\ feedback' = [feedback EXCEPT
                     ![feedback_id] = SetAttrs(feedback[feedback_id], feedback_update)]
              /\ last' = Response("update_feedback", caller, feedback_id, OK)
    /\ UNCHANGED <<users, requests, now, pc>>

(* acknowledge_feedback without line 152: the flag is set, the stamp is not *)
acknowledge_feedback_NoStamp(caller, feedback_id) ==
    /\ IF feedback_id \notin DOMAIN feedback
         THEN /\ last' = Response("acknowledge_feedback", caller, feedback_id, NotFound)
              /\ UNCHANGED feedback
         ELSE IF feedback[feedback_id].employee_id # caller
         THEN /\ last' = Response("acknowledge_feedback", caller, feedback_id, Forbidden)
              /\ UNCHANGED feedback
         ELSE /\ feedback' = [feedback EXCEPT ![feedback_id].acknowledged = TRUE]
              /\ last' = Response("acknowledge_feedback", caller, feedback_id, OK)
    /\ UNCHANGED <<users, requests, now, pc>>
(* acknowledge_feedback that returns an acknowledged record as it is: the  *)
(* first stamp is kept                                                      *)
acknowledge_feedback_KeepStamp(caller, feedback_id) ==
    /\ IF feedback_id \notin DOMAIN feedback
         THEN /\ last' = Response("acknowledge_feedback", caller, feedback_id, NotFound)
              /\ UNCHANGED feedback
         ELSE IF feedback[feedback_id].employee_id # caller
         THEN /\ last' = Response("acknowledge_feedback", caller, feedback_id, Forbidden)
              /\ UNCHANGED feedback
         ELSE IF feedback[feedback_id].acknowledged
         THEN /\ last' = Response("acknowledge_feedback", caller, feedback_id, OK)
              /\ UNCHANGED feedback
         ELSE /\ feedback' = [feedback EXCEPT ![feedback_id].acknowledged = TRUE,
                                              ![feedback_id].acknowledged_at = now]
              /\ last' = Response("acknowledge_feedback", caller, feedback_id, OK)
    /\ UNCHANGED <<users, requests, now, pc>>

acknowledge_feedback(caller, feedback_id) ==
    /\ IF feedback_id \notin DOMAIN feedback
         THEN /\ last' = Response("acknowledge_feedback", caller, feedback_id, NotFound)
              /\ UNCHANGED feedback
         ELSE IF feedback[feedback_id].employee_id # caller
         THEN /\ last' = Response("acknowledge_feedback", caller, feedback_id, Forbidden)
              /\ UNCHANGED feedback
         ELSE /\ feedback' = [feedback EXCEPT ![feedback_id].acknowledged = TRUE,
                                              ![feedback_id].acknowledged_at = now]
              /\ last' = Response("acknowledge_feedback", caller, feedback_id, OK)
    /\ UNCHANGED <<users, requests, now, pc>>
(* get_feedback without the filters of lines 68 and 71 *)
get_feedback_AllRows(caller) ==
    feedback

(* GET /feedback: the rows the caller is shown *)
get_feedback(caller) ==
    IF users[caller].role = MANAGER
      THEN SelectSeq(feedback, LAMBDA f : f.manager_id = caller)
      ELSE SelectSeq(feedback, LAMBDA f : f.employee_id = caller)

(* get_dashboard_data whose neutral_feedback is left at 0 *)
get_dashboard_data_NoNeutral(caller) ==
    LET rows == IF users[caller].role = MANAGER
                  THEN SelectSeq(feedback, LAMBDA f : f.manager_id = caller)
                  ELSE SelectSeq(feedback, LAMBDA f : f.employee_id = caller)
        team_members_count ==
                IF users[caller].role = MANAGER
                  THEN Cardinality({u \in UserIds : users[u].manager_id = caller})
                  ELSE 0
    IN  [feedback |-> rows,
         stats |->
           [total_feedback    |-> Len(rows),
            positive_feedback |->
               Len(SelectSeq(rows, LAMBDA f : f.overall_sentiment = POSITIVE)),
            neutral_feedback  |-> 0,
            negative_feedback |->
               Len(SelectSeq(rows, LAMBDA f : f.overall_sentiment = NEGATIVE)),
            team_members_count |-> team_members_count]]

(* GET /feedback/dashboard: the caller's rows and the counts over them *)
get_dashboard_data(caller) ==
    LET rows == IF users[caller].role = MANAGER
                  THEN SelectSeq(feedback, LAMBDA f : f.manager_id = caller)
                  ELSE SelectSeq(feedback, LAMBDA f : f.employee_id = caller)
        team_members_count ==
                IF users[caller].role = MANAGER
                  THEN Cardinality({u \in UserIds : users[u].manager_id = caller})
                  ELSE 0
    IN  [feedback |-> rows,
         stats |->
           [total_feedback    |-> Len(rows),
            positive_feedback |->
               Len(SelectSeq(rows, LAMBDA f : f.overall_sentiment = POSITIVE)),
            neutral_feedback  |->
               Len(SelectSeq(rows, LAMBDA f : f.overall_sentiment = NEUTRAL)),
            negative_feedback |->
               Len(SelectSeq(rows, LAMBDA f : f.overall_sentiment = NEGATIVE)),
            team_members_count |-> team_members_count]]

----------------------------------------------------------------------------
(* Feedback-Request component *)

(* the SELECT with a status literal no row carries: it never finds a row *)
existing_request_WrongLiteral(rows, employee_id, manager_id) ==
    \E i \in DOMAIN rows :
        /\ rows[i].employee_id = employee_id
        /\ rows[i].manager_id = manager_id
        /\ rows[i].status = "Pending"

(* the SELECT without the status filter: a request of any status is found *)
existing_request_AnyStatus(rows, employee_id, manager_id) ==
    \E i \in DOMAIN rows :
        /\ rows[i].employee_id = employee_id
        /\ rows[i].manager_id = manager_id

(* the SELECT ... WHERE employee_id, manager_id, status = 'pending' .first() *)
existing_request(rows, employee_id, manager_id) ==
    \E i \in DOMAIN rows :
        /\ rows[i].employee_id = employee_id
        /\ rows[i].manager_id = manager_id
        /\ rows[i].status = PENDING

(* the INSERT against a table with a unique index on the pending           *)
(* (employee_id, manager_id): the store rejects the second row             *)
InsertRequest_UniqueIndex(rows, employee_id, manager_id, message) ==
    IF existing_request(rows, employee_id, manager_id)
      THEN rows
      ELSE Append(rows, FeedbackRequest(Len(rows) + 1, employee_id, manager_id, message))
(* an INSERT that reuses the pair's closed row when there is one: the row  *)
(* is set back to pending                                                  *)
InsertRequest_ReuseRow(rows, employee_id, manager_id, message) ==
    LET closed == {i \in DOMAIN rows : /\ rows[i].employee_id = employee_id
                                       /\ rows[i].manager_id = manager_id
                                       /\ rows[i].status # PENDING}
    IN  IF closed # {}
          THEN [rows EXCEPT ![CHOOSE i \in closed : TRUE].status = PENDING]
          ELSE Append(rows, FeedbackRequest(Len(rows) + 1, employee_id, manager_id, message))

(* db.add(feedback_request); db.commit(): the table has no unique index *)
InsertRequest(rows, employee_id, manager_id, message) ==
    Append(rows, FeedbackRequest(Len(rows) + 1, employee_id, manager_id, message))

(* create_feedback_request without the manager check of lines 170-174 *)
create_feedback_request_NoManagerCheck(caller, message) ==
    /\ IF users[caller].role # EMPLOYEE
         THEN /\ last' = Response("create_feedback_request", caller, NULL, Forbidden)
              /\ UNCHANGED requests
         ELSE IF existing_request(requests, caller, users[caller].manager_id)
         THEN /\ last' = Response("create_feedback_request", caller, NULL, BadRequest)
              /\ UNCHANGED requests
         ELSE /\ requests' = InsertRequest(requests, caller, users[caller].manager_id, message)
              /\ last' = Response("create_feedback_request", caller, NULL, OK)
    /\ UNCHANGED <<users, feedback, now, pc>>

create_feedback_request(caller, message) ==
    /\ IF users[caller].role # EMPLOYEE
         THEN /\ last' = Response("create_feedback_request", caller, NULL, Forbidden)
              /\ UNCHANGED requests
         ELSE IF users[caller].manager_id = NULL
         THEN /\ last' = Response("create_feedback_request", caller, NULL, BadRequest)
              /\ UNCHANGED requests
         ELSE IF existing_request(requests, caller, users[caller].manager_id)
         THEN /\ last' = Response("create_feedback_request", caller, NULL, BadRequest)
              /\ UNCHANGED requests
         ELSE /\ requests' = InsertRequest(requests, caller, users[caller].manager_id, message)
              /\ last' = Response("create_feedback_request", caller, NULL, OK)
    /\ UNCHANGED <<users, feedback, now, pc>>

(* complete_feedback_request that refuses a request that is not pending *)
complete_feedback_request_PendingOnly(caller, request_id) ==
    /\ IF request_id \notin DOMAIN requests
         THEN /\ last' = Response("complete_feedback_request", caller, request_id, NotFound)
              /\ UNCHANGED requests
         ELSE IF requests[request_id].manager_id # caller
         THEN /\ last' = Response("complete_feedback_request", caller, request_id, Forbidden)
              /\ UNCHANGED requests
         ELSE IF requests[request_id].status # PENDING
         THEN /\ last' = Response("complete_feedback_request", caller, request_id, BadRequest)
              /\ UNCHANGED requests
         ELSE /\ requests' = [requests EXCEPT ![request_id].status = COMPLETED,
                                              ![request_id].completed_at = now]
              /\ last' = Response("complete_feedback_request", caller, request_id, OK)
    /\ UNCHANGED <<users, feedback, now, pc>>
(* complete_feedback_request without line 240: the status is set, the      *)
(* stamp is not                                                            *)
complete_feedback_request_NoStamp(caller, request_id) ==
    /\ IF request_id \notin DOMAIN requests
         THEN /\ last' = Response("complete_feedback_request", caller, request_id, NotFound)
              /\ UNCHANGED requests
         ELSE IF requests[request_id].manager_id # caller
         THEN /\ last' = Response("complete_feedback_request", caller, request_id, Forbidden)
              /\ UNCHANGED requests
         ELSE /\ requests' = [requests EXCEPT ![request_id].status = COMPLETED]
              /\ last' = Response("complete_feedback_request", caller, request_id, OK)
    /\ UNCHANGED <<users, feedback, now, pc>>

complete_feedback_request(caller, request_id) ==
    /\ IF request_id \notin DOMAIN requests
         THEN /\ last' = Response("complete_feedback_request", caller, request_id, NotFound)
              /\ UNCHANGED requests
         ELSE IF requests[request_id].manager_id # caller
         THEN /\ last' = Response("complete_feedback_request", caller, request_id, Forbidden)
              /\ UNCHANGED requests
         ELSE /\ requests' = [requests EXCEPT ![request_id].status = COMPLETED,
                                              ![request_id].completed_at = now]
              /\ last' = Response("complete_feedback_request", caller, request_id, OK)
    /\ UNCHANGED <<users, feedback, now, pc>>

(* cancel_feedback_request with "or" for the "and" of line 259: a caller   *)
(* must be both parties                                                    *)
cancel_feedback_request_BothParties(caller, request_id) ==
    /\ IF request_id \notin DOMAIN requests
         THEN /\ last' = Response("cancel_feedback_request", caller, request_id, NotFound)
              /\ UNCHANGED requests
         ELSE IF \/ requests[request_id].employee_id # caller
                 \/ requests[request_id].manager_id # caller
         THEN /\ last' = Response("cancel_feedback_request", caller, request_id, Forbidden)
              /\ UNCHANGED requests
         ELSE /\ requests' = [requests EXCEPT ![request_id].status = CANCELLED]
              /\ last' = Response("cancel_feedback_request", caller, request_id, OK)
    /\ UNCHANGED <<users, feedback, now, pc>>
(* cancel_feedback_request that commits the status before the test of      *)
(* lines 259-263                                                           *)
cancel_feedback_request_WriteFirst(caller, request_id) ==
    /\ IF request_id \notin DOMAIN requests
         THEN /\ last' = Response("cancel_feedback_request", caller, request_id, NotFound)
              /\ UNCHANGED requests
         ELSE /\ requests' = [requests EXCEPT ![request_id].status = CANCELLED]
              /\ IF /\ requests[request_id].employee_id # caller
                    /\ requests[request_id].manager_id # caller
                   THEN last' = Response("cancel_feedback_request", caller, request_id, Forbidden)
                   ELSE last' = Response("cancel_feedback_request", caller, request_id, OK)
    /\ UNCHANGED <<users, feedback, now, pc>>
(* cancel_feedback_request as a DELETE of the row *)
cancel_feedback_request_DeleteRow(caller, request_id) ==
    /\ IF request_id \notin DOMAIN requests
         THEN /\ last' = Response("cancel_feedback_request", caller, request_id, NotFound)
              /\ UNCHANGED requests
         ELSE IF /\ requests[request_id].employee_id # caller
                 /\ requests[request_id].manager_id # caller
         THEN /\ last' = Response("cancel_feedback_request", caller, request_id, Forbidden)
              /\ UNCHANGED requests
         ELSE /\ requests' = SelectSeq(requests, LAMBDA q : q.id # request_id)
              /\ last' = Response("cancel_feedback_request", caller, request_id, OK)
    /\ UNCHANGED <<users, feedback, now, pc>>

cancel_feedback_request(caller, request_id) ==
    /\ IF request_id \notin DOMAIN requests
         THEN /\ last' = Response("cancel_feedback_request", caller, request_id, NotFound)
              /\ UNCHANGED requests
         ELSE IF /\ requests[request_id].employee_id # caller
                 /\ requests[request_id].manager_id # caller
         THEN /\ last' = Response("cancel_feedback_request", caller, request_id, Forbidden)
              /\ UNCHANGED requests
         ELSE /\ requests' = [requests EXCEPT ![request_id].status = CANCELLED]
              /\ last' = Response("cancel_feedback_request", caller, request_id, OK)
    /\ UNCHANGED <<users, feedback, now, pc>>

----------------------------------------------------------------------------
(* create_feedback_request as two steps of a worker: the checks up to the  *)
(* SELECT of the pending request, then the INSERT and commit.  The worker  *)
(* keeps the current_user it loaded at the start of the request.           *)

CheckRequest(w, caller, message) ==
    /\ pc[w].state = "idle"
    /\ IF users[caller].role # EMPLOYEE
         THEN /\ last' = Response("create_feedback_request", caller, NULL, Forbidden)
              /\ UNCHANGED pc
         ELSE IF users[caller].manager_id = NULL
         THEN /\ last' = Response("create_feedback_request", caller, NULL, BadRequest)
              /\ UNCHANGED pc
         ELSE IF existing_request(requests, caller, users[caller].manager_id)
         THEN /\ last' = Response("create_feedback_request", caller, NULL, BadRequest)
              /\ UNCHANGED pc
         ELSE /\ pc' = [pc EXCEPT ![w] = [state |-> "insert", caller |-> caller,
                                          manager_id |-> users[caller].manager_id,
                                          message |-> message]]
              /\ UNCHANGED last
    /\ UNCHANGED <<users, feedback, requests, now>>

CommitRequest(w) ==
    /\ pc[w].state = "insert"
    /\ requests' = InsertRequest(requests, pc[w].caller, pc[w].manager_id, pc[w].message)
    /\ last' = Response("create_feedback_request", pc[w].caller, NULL, OK)
    /\ pc' = [pc EXCEPT ![w] = Idle]
    /\ UNCHANGED <<users, feedback, now>>

----------------------------------------------------------------------------
(* Specifications *)

(* Org changes by any user *)
UpdateUserStep ==
    \E c \in UserIds, u \in ManagerUpdates : update_current_user(c, u)

(* Org changes by the employees; the managers keep the manager Init gives  *)
(* them (the feedback-request handlers read no other user's manager_id)    *)
UpdateEmployeeStep ==
    \E c \in {u \in UserIds : users[u].role = EMPLOYEE}, u \in ManagerUpdates :
       update_current_user(c, u)

(* one body per call is enough where the content of a record is not at    *)
(* stake; Texts, SentimentType and FeedbackUpdates are the full input sets *)
CreateFeedbackStep ==
    \E c \in UserIds, e \in UserIds \cup {MissingUserId},
       s \in {"t1"}, a \in {"t1"}, o \in {POSITIVE} :
       /\ create_feedback(c, e, s, a, o)
       /\ Len(feedback') <= MaxFeedback

UpdateFeedbackStep ==
    \E c \in UserIds, f \in 1..MaxFeedback, u \in {EmptyUpdate, [strengths |-> "t2"]} :
       update_feedback(c, f, u)

AcknowledgeStep ==
    \E c \in UserIds, f \in 1..MaxFeedback : acknowledge_feedback(c, f)

CreateRequestStep ==
    \E c \in UserIds, m \in Messages :
       /\ create_feedback_request(c, m)
       /\ Len(requests') <= MaxRequests

CompleteStep ==
    \E c \in UserIds, r \in 1..MaxRequests : complete_feedback_request(c, r)

CancelStep ==
    \E c \in UserIds, r \in 1..MaxRequests : cancel_feedback_request(c, r)

CheckRequestStep ==
    \E w \in Workers, c \in UserIds, m \in Messages :
       /\ CheckRequest(w, c, m)
       /\ Len(requests) + Cardinality({v \in Workers : pc'[v].state = "insert"})
            <= MaxRequests

CommitRequestStep ==
    \E w \in Workers : CommitRequest(w)

(* the steps of the feedback component over MaxContent records, each       *)
(* about a user of role employee                                           *)
CreateContentStep ==
    \E c \in UserIds,
       e \in {u \in UserIds : users[u].role = EMPLOYEE} \cup {MissingUserId} :
       /\ create_feedback(c, e, "t1", "t1", POSITIVE)
       /\ Len(feedback') <= MaxContent

UpdateContentStep ==
    \E c \in UserIds, f \in 1..MaxContent, u \in ContentUpdates :
       update_feedback(c, f, u)

AcknowledgeContentStep ==
    \E c \in UserIds, f \in 1..MaxContent : acknowledge_feedback(c, f)

(* profile changes by any user *)
UpdateProfileStep ==
    \E c \in UserIds, u \in UserUpdates : update_current_user(c, u)

(* the feedback handlers read and write the users and feedback tables,    *)
(* the request handlers the users and requests tables: a run of            *)
(* SpecFailures fills one of the two                                       *)
CreateFeedbackAloneStep ==
    /\ requests = << >>
    /\ CreateFeedbackStep

CreateRequestAloneStep ==
    /\ feedback = << >>
    /\ CreateRequestStep

TeamStep ==
    \E c \in UserIds : get_team_members(c)

(* feedback of every sentiment *)
CreateSentimentStep ==
    \E c \in UserIds, e \in UserIds \cup {MissingUserId}, o \in SentimentType :
       /\ create_feedback(c, e, "t1", "t1", o)
       /\ Len(feedback') <= MaxContent

(* who may give feedback to whom, under every change of the org chart *)
NextOrg ==
    \/ UpdateUserStep
    \/ CreateFeedbackStep

(* the feedback component *)
NextFeedback ==
    \/ Tick
    \/ UpdateEmployeeStep
    \/ CreateFeedbackStep
    \/ UpdateFeedbackStep
    \/ AcknowledgeStep

(* the feedback-request component, every handler atomic, while the        *)
(* employees change manager                                                *)
NextRequest ==
    \/ UpdateEmployeeStep
    \/ CreateRequestStep
    \/ CompleteStep
    \/ CancelStep

(* the life of the requests of a fixed org chart, as time passes *)
NextLifecycle ==
    \/ Tick
    \/ CreateRequestStep
    \/ CompleteStep
    \/ CancelStep

(* the feedback-request component with concurrent create calls *)
NextRace ==
    \/ UpdateEmployeeStep
    \/ CheckRequestStep
    \/ CommitRequestStep
    \/ CompleteStep
    \/ CancelStep

(* the content of the feedback records of a fixed org chart *)
NextContent ==
    \/ CreateContentStep
    \/ UpdateContentStep
    \/ AcknowledgeContentStep

(* what the lists and dashboards show while the employees change manager *)
NextDashboard ==
    \/ UpdateEmployeeStep
    \/ CreateSentimentStep

(* the users table under PUT /me *)
NextProfile ==
    \/ UpdateProfileStep

(* every handler that can refuse a call, while the employees change       *)
(* manager                                                                 *)
NextFailures ==
    \/ UpdateEmployeeStep
    \/ TeamStep
    \/ CreateFeedbackAloneStep
    \/ UpdateFeedbackStep
    \/ AcknowledgeStep
    \/ CreateRequestAloneStep
    \/ CompleteStep
    \/ CancelStep

Next ==
    \/ Tick
    \/ UpdateUserStep
    \/ CreateFeedbackStep
    \/ UpdateFeedbackStep
    \/ AcknowledgeStep
    \/ CreateRequestStep
    \/ CompleteStep
    \/ CancelStep

Spec         == Init /\ [][Next]_vars
SpecOrg      == Init /\ [][NextOrg]_vars
SpecFeedback == Init /\ [][NextFeedback]_vars
SpecRequest  == Init /\ [][NextRequest]_vars
SpecLifecycle == Init /\ [][NextLifecycle]_vars
SpecRace     == Init /\ [][NextRace]_vars
SpecContent  == Init /\ [][NextContent]_vars
SpecDashboard == Init /\ [][NextDashboard]_vars
SpecProfile  == Init /\ [][NextProfile]_vars
SpecFailures == Init /\ [][NextFailures]_vars

----------------------------------------------------------------------------
(* Properties *)

(* C1: every feedback record has acknowledged = true if and only if its    *)
(* acknowledged_at is not null, in every state reached by create, update   *)
(* and acknowledge calls.                                                  *)
C1_AcknowledgedIffStamped ==
    \A i \in DOMAIN feedback :
        feedback[i].acknowledged <=> feedback[i].acknowledged_at # NULL

(* an acknowledged record that its author has just updated *)
C1_Witness ==
    /\ last.op = "update_feedback"
    /\ last.status = OK
    /\ last.arg \in DOMAIN feedback
    /\ feedback[last.arg].acknowledged
    /\ feedback[last.arg].acknowledged_at # NULL
    /\ feedback[last.arg].strengths = "t2"

(* C2: for a caller with role manager and an existing user E,              *)
(* create_feedback succeeds, adding one record with manager_id = caller,   *)
(* employee_id = E and acknowledged = false, exactly when E.manager_id is  *)
(* the caller at the time of the call; otherwise the response is Forbidden *)
(* and no record is added.                                                 *)
C2_CreateIffDirectReport ==
    [][\A c \in UserIds, e \in UserIds :
         \A s \in Texts, a \in Texts, o \in SentimentType :
           (users[c].role = MANAGER /\ create_feedback(c, e, s, a, o)) =>
              IF users[e].manager_id = c
                THEN /\ last'.status = OK
                     /\ Len(feedback') = Len(feedback) + 1
                     /\ SubSeq(feedback', 1, Len(feedback)) = feedback
                     /\ feedback'[Len(feedback')].manager_id = c
                     /\ feedback'[Len(feedback')].employee_id = e
                     /\ feedback'[Len(feedback')].acknowledged = FALSE
                ELSE /\ last'.status = Forbidden
                     /\ feedback' = feedback]_vars

(* manager 2, to whom nobody reports at first, has given feedback to a     *)
(* user who made 2 their manager                                           *)
C2_Witness ==
    /\ last = Response("create_feedback", 2, last.arg, OK)
    /\ last.arg \in UserIds
    /\ users[last.arg].manager_id = 2
    /\ Len(feedback) = 1
    /\ feedback[1].manager_id = 2
    /\ feedback[1].employee_id = last.arg

PendingFor(employee_id, manager_id) ==
    {i \in DOMAIN requests : /\ requests[i].employee_id = employee_id
                             /\ requests[i].manager_id = manager_id
                             /\ requests[i].status = PENDING}

(* C3: with atomic handlers, at most one pending request exists for any    *)
(* (employee_id, manager_id) pair, and a create attempt while one is       *)
(* pending for the caller's pair returns BadRequest and adds no record.    *)
C3_OnePendingPerPair ==
    /\ [](\A i \in DOMAIN requests :
            Cardinality(PendingFor(requests[i].employee_id, requests[i].manager_id)) <= 1)
    /\ [][\A c \in UserIds, m \in Messages :
            (/\ create_feedback_request(c, m)
             /\ PendingFor(c, users[c].manager_id) # {}) =>
               /\ last'.status = BadRequest
               /\ requests' = requests]_vars

(* the employee, with a pending request to their manager, was refused a    *)
(* second one                                                              *)
C3_Witness ==
    /\ last.op = "create_feedback_request"
    /\ last.status = BadRequest
    /\ users[last.caller].role = EMPLOYEE
    /\ users[last.caller].manager_id # NULL
    /\ Cardinality(PendingFor(last.caller, users[last.caller].manager_id)) = 1

(* C4: when the check and the insert of create_feedback_request are        *)
(* separate steps, the insert of a worker that passed the check adds a     *)
(* pending row for its pair whatever rows are in the table by then (there  *)
(* is no uniqueness constraint), so two concurrent calls can leave two     *)
(* pending requests for one pair (C4_Witness).                             *)
C4_InsertAfterCheckUnconditional ==
    [][\A w \in Workers :
         CommitRequest(w) =>
            /\ Len(requests') = Len(requests) + 1
            /\ SubSeq(requests', 1, Len(requests)) = requests
            /\ requests'[Len(requests')].employee_id = pc[w].caller
            /\ requests'[Len(requests')].manager_id = pc[w].manager_id
            /\ requests'[Len(requests')].status = PENDING]_vars

(* two pending requests of one employee to one manager *)
C4_Witness ==
    \E i \in DOMAIN requests, j \in DOMAIN requests :
        /\ i # j
        /\ requests[i].status = PENDING
        /\ requests[j].status = PENDING
        /\ requests[i].employee_id = requests[j].employee_id
        /\ requests[i].manager_id = requests[j].manager_id

(* C5: acknowledgment is one-way: a record with acknowledged = true keeps  *)
(* it in every later state, and the only step that turns acknowledged from *)
(* false to true is an acknowledge_feedback call by the record's employee. *)
C5_AcknowledgeOneWay ==
    [][\A i \in DOMAIN feedback :
         /\ feedback[i].acknowledged => feedback'[i].acknowledged
         /\ (~feedback[i].acknowledged /\ feedback'[i].acknowledged) =>
               acknowledge_feedback(feedback[i].employee_id, i)]_vars

(* an acknowledged record whose employee has since left the author's team *)
C5_Witness ==
    /\ last.op = "update_current_user"
    /\ last.status = OK
    /\ \E i \in DOMAIN feedback :
          /\ feedback[i].acknowledged
          /\ feedback[i].employee_id = last.caller
          /\ users[last.caller].manager_id # feedback[i].manager_id

(* C6: completed and cancelled are terminal: once a request's status is    *)
(* completed or cancelled, no later complete or cancel call changes it.    *)
C6_TerminalStatus ==
    [][\A i \in DOMAIN requests :
         requests[i].status \in {COMPLETED, CANCELLED} =>
            requests'[i].status = requests[i].status]_vars

(* C7: complete_feedback_request on an existing request succeeds exactly   *)
(* when the caller is the request's manager_id, whatever the request's     *)
(* status, and then sets status = completed and completed_at = now; every  *)
(* other caller, the requesting employee included, gets Forbidden and the  *)
(* request is left as it was.                                              *)
C7_CompleteByManagerOnly ==
    [][\A c \in UserIds, r \in DOMAIN requests :
         complete_feedback_request(c, r) =>
            IF c = requests[r].manager_id
              THEN /\ last'.status = OK
                   /\ requests'[r].status = COMPLETED
                   /\ requests'[r].completed_at = now
              ELSE /\ last'.status = Forbidden
                   /\ requests' = requests]_vars

(* the manager has completed a request that was not pending: a later       *)
(* request of the same pair is pending, and that one could be created only *)
(* once this one was completed or cancelled                                *)
C7_Witness ==
    /\ last.op = "complete_feedback_request"
    /\ last.status = OK
    /\ requests[last.arg].manager_id = last.caller
    /\ requests[last.arg].status = COMPLETED
    /\ requests[last.arg].completed_at = now
    /\ \E j \in DOMAIN requests :
          /\ j > last.arg
          /\ requests[j].employee_id = requests[last.arg].employee_id
          /\ requests[j].manager_id = requests[last.arg].manager_id
          /\ requests[j].status = PENDING

(* C8: cancel_feedback_request on an existing request succeeds exactly     *)
(* when the caller is the request's employee_id or its manager_id,         *)
(* whatever the request's status, and then sets status = cancelled; a      *)
(* caller who is neither gets Forbidden and the request is left as it was. *)
C8_CancelByEitherParty ==
    [][\A c \in UserIds, r \in DOMAIN requests :
         cancel_feedback_request(c, r) =>
            IF c \in {requests[r].employee_id, requests[r].manager_id}
              THEN /\ last'.status = OK
                   /\ requests'[r].status = CANCELLED
              ELSE /\ last'.status = Forbidden
                   /\ requests' = requests]_vars

(* the manager has cancelled a request that had been completed: cancel     *)
(* leaves the completed_at that only complete sets                         *)
C8_Witness ==
    /\ last.op = "cancel_feedback_request"
    /\ last.status = OK
    /\ last.caller = requests[last.arg].manager_id
    /\ last.caller # requests[last.arg].employee_id
    /\ requests[last.arg].status = CANCELLED
    /\ requests[last.arg].completed_at # NULL

(* C9: a request blocks new ones only while it is pending: when employee   *)
(* E, managed by M, has requests to M that are all completed or cancelled, *)
(* the next create_feedback_request by E succeeds and adds a pending       *)
(* request to M, and every earlier record is kept as it was.               *)
C9_CreateAfterCompletion ==
    [][\A c \in UserIds, m \in Messages :
         (/\ create_feedback_request(c, m)
          /\ users[c].role = EMPLOYEE
          /\ users[c].manager_id # NULL
          /\ \E i \in DOMAIN requests :
                /\ requests[i].employee_id = c
                /\ requests[i].manager_id = users[c].manager_id
          /\ \A i \in DOMAIN requests :
                (requests[i].employee_id = c /\ requests[i].manager_id = users[c].manager_id)
                   => requests[i].status \in {COMPLETED, CANCELLED}) =>
            /\ last'.status = OK
            /\ Len(requests') = Len(requests) + 1
            /\ SubSeq(requests', 1, Len(requests)) = requests
            /\ requests'[Len(requests')].employee_id = c
            /\ requests'[Len(requests')].manager_id = users[c].manager_id
            /\ requests'[Len(requests')].status = PENDING]_vars

(* a completed request and, created after it, a pending request of the     *)
(* same employee to the same manager                                       *)
C9_Witness ==
    /\ last.op = "create_feedback_request"
    /\ last.status = OK
    /\ Len(requests) = 2
    /\ requests[1].status = COMPLETED
    /\ requests[1].completed_at # NULL
    /\ requests[2].status = PENDING
    /\ requests[2].employee_id = requests[1].employee_id
    /\ requests[2].manager_id = requests[1].manager_id
    /\ users[last.caller].manager_id = requests[2].manager_id

(* C10: create_feedback_request returns Forbidden to a caller whose role   *)
(* is not employee and BadRequest to an employee with no manager, adding   *)
(* no record in either case; every record it adds has status pending,      *)
(* completed_at null, employee_id = caller and manager_id = the caller's   *)
(* manager_id at the time of the call.                                     *)
C10_CreateRequestChecks ==
    [][\A c \in UserIds, m \in Messages :
         create_feedback_request(c, m) =>
            /\ users[c].role # EMPLOYEE =>
                  (last'.status = Forbidden /\ requests' = requests)
            /\ (users[c].role = EMPLOYEE /\ users[c].manager_id = NULL) =>
                  (last'.status = BadRequest /\ requests' = requests)
            /\ requests' # requests =>
                  /\ Len(requests') = Len(requests) + 1
                  /\ SubSeq(requests', 1, Len(requests)) = requests
                  /\ requests'[Len(requests')].status = PENDING
                  /\ requests'[Len(requests')].completed_at = NULL
                  /\ requests'[Len(requests')].employee_id = c
                  /\ requests'[Len(requests')].manager_id = users[c].manager_id
                  /\ users[c].manager_id # NULL]_vars

(* the employee, having given up their manager, was refused a request *)
C10_Witness ==
    /\ last.op = "create_feedback_request"
    /\ last.status = BadRequest
    /\ users[last.caller].role = EMPLOYEE
    /\ users[last.caller].manager_id = NULL
    /\ requests = << >>

(* C11: every user with role employee whose manager_id is set references   *)
(* a user whose role is manager (not an employee, an admin or the user     *)
(* itself), after any sequence of update_current_user calls.               *)
C11_EmployeeManagerIsManager ==
    \A u \in UserIds :
        (users[u].role = EMPLOYEE /\ users[u].manager_id # NULL) =>
           /\ users[u].manager_id \in UserIds
           /\ users[u].manager_id # u
           /\ users[users[u].manager_id].role = MANAGER

(* C12: update_feedback answers NotFound for a missing id; on an existing   *)
(* record it succeeds exactly when the caller is the record's manager_id    *)
(* and answers Forbidden to everyone else without writing, whoever the      *)
(* subject employee's manager is at the time of the call.                   *)
C12_UpdateByAuthorOnly ==
    [][last'.op = "update_feedback" =>
        \A c \in {last'.caller}, f \in {last'.arg}, u \in FeedbackUpdates :
          update_feedback(c, f, u) =>
             IF f \notin DOMAIN feedback
               THEN last'.status = NotFound /\ feedback' = feedback
               ELSE IF c = feedback[f].manager_id
               THEN last'.status = OK
               ELSE last'.status = Forbidden /\ feedback' = feedback]_vars

(* the employee's new manager was answered Forbidden on a record written   *)
(* by the former manager                                                    *)
C12_Witness ==
    /\ last.op = "update_feedback"
    /\ last.status = Forbidden
    /\ last.arg \in DOMAIN feedback
    /\ users[last.caller].role = MANAGER
    /\ users[feedback[last.arg].employee_id].manager_id = last.caller
    /\ feedback[last.arg].manager_id # last.caller

(* C13: a successful update_feedback writes, on the record it names, the    *)
(* fields of strengths, areas_to_improve and overall_sentiment present in   *)
(* the body and nothing else: id, manager_id, employee_id, acknowledged,    *)
(* acknowledged_at and the content fields not supplied keep their values,   *)
(* and so does every other record and every other table.                    *)
C13_UpdateFrame ==
    [][(last'.op = "update_feedback" /\ last'.status = OK) =>
        \A c \in {last'.caller}, f \in {last'.arg}, u \in FeedbackUpdates :
          update_feedback(c, f, u) =>
             /\ DOMAIN feedback' = DOMAIN feedback
             /\ \A i \in DOMAIN feedback : i # f => feedback'[i] = feedback[i]
             /\ \A k \in DOMAIN feedback[f] :
                   feedback'[f][k] =
                      IF k \in DOMAIN u
                            /\ k \in {"strengths", "areas_to_improve", "overall_sentiment"}
                        THEN u[k]
                        ELSE feedback[f][k]
             /\ UNCHANGED <<users, requests>>]_vars

(* the author has changed one field of an acknowledged record while        *)
(* another record sits in the table                                        *)
C13_Witness ==
    /\ last.op = "update_feedback"
    /\ last.status = OK
    /\ Len(feedback) >= 2
    /\ feedback[last.arg].acknowledged
    /\ feedback[last.arg].strengths = "t2"
    /\ feedback[last.arg].areas_to_improve = "t1"
    /\ feedback[last.arg].overall_sentiment = POSITIVE

(* C14: on a record that is already acknowledged, acknowledge_feedback by   *)
(* anyone but the record's employee answers Forbidden and leaves the record *)
(* as it was; by the record's employee it succeeds and sets acknowledged_at *)
(* to the current time, which is not earlier than the stamp it replaces;    *)
(* and no step moves the acknowledged_at of an acknowledged record back.    *)
C14_AcknowledgeAgain ==
    [][/\ \A c \in UserIds, i \in DOMAIN feedback :
            (feedback[i].acknowledged /\ acknowledge_feedback(c, i)) =>
               IF c = feedback[i].employee_id
                 THEN /\ last'.status = OK
                      /\ feedback'[i].acknowledged
                      /\ feedback'[i].acknowledged_at = now
                      /\ feedback'[i].acknowledged_at >= feedback[i].acknowledged_at
                 ELSE /\ last'.status = Forbidden
                      /\ feedback' = feedback
       /\ \A i \in DOMAIN feedback :
            feedback[i].acknowledged =>
               feedback'[i].acknowledged_at >= feedback[i].acknowledged_at]_vars

(* an acknowledge call by someone other than the employee was answered     *)
(* Forbidden on a record acknowledged at an earlier time                    *)
C14_Witness ==
    /\ last.op = "acknowledge_feedback"
    /\ last.status = Forbidden
    /\ last.arg \in DOMAIN feedback
    /\ feedback[last.arg].acknowledged
    /\ feedback[last.arg].acknowledged_at < now

(* C15: in every state and for every caller, the dashboard's total_feedback *)
(* is the number of records in the caller's scope (authored by a manager    *)
(* caller, received by any other caller) and equals positive_feedback +     *)
(* neutral_feedback + negative_feedback; team_members_count is the number   *)
(* of users whose manager_id is the caller for a manager, 0 for the rest.   *)
C15_DashboardCounts ==
    \A c \in UserIds :
        LET stats == get_dashboard_data(c).stats
            scope == IF users[c].role = MANAGER
                       THEN {i \in DOMAIN feedback : feedback[i].manager_id = c}
                       ELSE {i \in DOMAIN feedback : feedback[i].employee_id = c}
        IN  /\ stats.total_feedback = Cardinality(scope)
            /\ stats.total_feedback =
                  stats.positive_feedback + stats.neutral_feedback
                     + stats.negative_feedback
            /\ stats.team_members_count =
                  IF users[c].role = MANAGER
                    THEN Cardinality({u \in UserIds : users[u].manager_id = c})
                    ELSE 0

(* a manager with two records of different sentiment, one of them neutral, *)
(* and an employee with a record who is some user's manager_id             *)
C15_Witness ==
    /\ \E c \in UserIds :
          /\ users[c].role = MANAGER
          /\ get_dashboard_data(c).stats.total_feedback = 2
          /\ get_dashboard_data(c).stats.neutral_feedback = 1
          /\ get_dashboard_data(c).stats.negative_feedback = 1
          /\ get_dashboard_data(c).stats.team_members_count = 1
    /\ \E c \in UserIds :
          /\ users[c].role # MANAGER
          /\ get_dashboard_data(c).stats.total_feedback >= 1
          /\ \E u \in UserIds : users[u].manager_id = c

(* the ids of the rows of a list *)
RowIds(rows) == {rows[k].id : k \in DOMAIN rows}

(* C16: the list and the dashboard of a manager-role caller hold exactly    *)
(* the records whose manager_id is the caller, those of any other caller    *)
(* exactly the records whose employee_id is the caller, each once; so every *)
(* record is in its author's list and dashboard and in those of its subject *)
(* employee, and nobody is shown a record of which they are neither the     *)
(* author nor the subject.                                                  *)
C16_CallerScopedLists ==
    /\ \A c \in UserIds :
          LET shown == get_feedback(c)
          IN  /\ get_dashboard_data(c).feedback = shown
              /\ RowIds(shown) =
                    IF users[c].role = MANAGER
                      THEN {i \in DOMAIN feedback : feedback[i].manager_id = c}
                      ELSE {i \in DOMAIN feedback : feedback[i].employee_id = c}
              /\ Len(shown) = Cardinality(RowIds(shown))
              /\ \A k \in DOMAIN shown :
                    /\ shown[k].id \in DOMAIN feedback
                    /\ shown[k] = feedback[shown[k].id]
                    /\ shown[k].manager_id = c \/ shown[k].employee_id = c
    /\ \A i \in DOMAIN feedback :
          /\ i \in RowIds(get_feedback(feedback[i].manager_id))
          /\ i \in RowIds(get_dashboard_data(feedback[i].manager_id).feedback)
          /\ users[feedback[i].employee_id].role = EMPLOYEE =>
                /\ i \in RowIds(get_feedback(feedback[i].employee_id))
                /\ i \in RowIds(get_dashboard_data(feedback[i].employee_id).feedback)

(* a record shown to its author and to its subject employee, and not to    *)
(* the manager the employee has moved to since                             *)
C16_Witness ==
    \E i \in DOMAIN feedback, c \in UserIds :
        /\ users[c].role = MANAGER
        /\ users[feedback[i].employee_id].role = EMPLOYEE
        /\ users[feedback[i].employee_id].manager_id = c
        /\ feedback[i].manager_id # c
        /\ i \in RowIds(get_feedback(feedback[i].manager_id))
        /\ i \in RowIds(get_feedback(feedback[i].employee_id))
        /\ i \notin RowIds(get_feedback(c))
        /\ get_dashboard_data(feedback[i].manager_id).stats.total_feedback >= 1
        /\ get_dashboard_data(feedback[i].employee_id).stats.total_feedback >= 1

(* C17: update_current_user writes, on the caller's row only, the fields of *)
(* email, full_name and manager_id present in the body; the fields not      *)
(* supplied, the role and the active flag keep their values, no row is      *)
(* added or removed, and every other user's row and every other table is    *)
(* unchanged.                                                               *)
C17_ProfileFrame ==
    [][last'.op = "update_current_user" =>
        \A c \in {last'.caller}, u \in UserUpdates :
          update_current_user(c, u) =>
             /\ DOMAIN users' = DOMAIN users
             /\ \A v \in UserIds \ {c} : users'[v] = users[v]
             /\ \A k \in DOMAIN users[c] :
                   users'[c][k] =
                      IF last'.status = OK /\ k \in DOMAIN u
                            /\ k \in {"email", "full_name", "manager_id"}
                        THEN u[k]
                        ELSE users[c][k]
             /\ UNCHANGED <<feedback, requests>>]_vars

(* a user who has changed email and kept name and manager, next to a user  *)
(* who has changed name and manager and kept the email                     *)
C17_Witness ==
    /\ last.op = "update_current_user"
    /\ last.status = OK
    /\ \E c, v \in UserIds :
          /\ users[c].email = "e4"
          /\ users[c].full_name = "n3"
          /\ users[c].manager_id = 1
          /\ users[c].role = EMPLOYEE
          /\ users[v].email = "e2"
          /\ users[v].full_name = "n9"
          /\ users[v].manager_id = NULL
          /\ users[v].role = MANAGER

(* C18: a call of create_feedback, update_feedback, acknowledge_feedback,   *)
(* create_feedback_request, complete_feedback_request,                      *)
(* cancel_feedback_request or get_team_members that is answered Forbidden,  *)
(* NotFound or BadRequest leaves the users, feedback and requests tables    *)
(* exactly as they were.                                                    *)
C18_FailureWritesNothing ==
    [][last'.status \in {Forbidden, NotFound, BadRequest} =>
          UNCHANGED <<users, feedback, requests>>]_vars

(* a user who is neither party of a pending request was answered Forbidden *)
(* by cancel_feedback_request, and the request is still pending            *)
C18_Witness ==
    /\ last.op = "cancel_feedback_request"
    /\ last.status = Forbidden
    /\ last.arg \in DOMAIN requests
    /\ requests[last.arg].status = PENDING
    /\ requests[last.arg].employee_id # last.caller
    /\ requests[last.arg].manager_id # last.caller

(* C19: in every state each feedback record's manager_id references a user  *)
(* of role manager and its employee_id references a user of role employee   *)
(* who is not the author.                                                   *)
C19_ManagerAboutEmployee ==
    \A i \in DOMAIN feedback :
        /\ users[feedback[i].manager_id].role = MANAGER
        /\ users[feedback[i].employee_id].role = EMPLOYEE
        /\ feedback[i].employee_id # feedback[i].manager_id

(* C20: in every state a request of status pending has completed_at null    *)
(* and a request of status completed has completed_at not null; a cancelled *)
(* request may have either.                                                 *)
C20_StatusAndStamp ==
    \A i \in DOMAIN requests :
        /\ requests[i].status = PENDING => requests[i].completed_at = NULL
        /\ requests[i].status = COMPLETED => requests[i].completed_at # NULL

(* a request completed at an earlier time, next to a pending one *)
C20_Witness ==
    \E i, j \in DOMAIN requests :
        /\ requests[i].status = COMPLETED
        /\ requests[i].completed_at # NULL
        /\ requests[i].completed_at < now
        /\ requests[j].status = PENDING
        /\ requests[j].completed_at = NULL

(* C21: pending is never re-entered: no step sets the status of a request   *)
(* that is completed or cancelled back to pending, and a successful         *)
(* complete_feedback_request or cancel_feedback_request leaves its request  *)
(* not pending, so a request is pending only from its creation to the       *)
(* first such call.                                                         *)
C21_PendingNotReentered ==
    [][/\ \A i \in DOMAIN requests :
            requests[i].status # PENDING =>
               /\ i \in DOMAIN requests'
               /\ requests'[i].status # PENDING
       /\ (last'.op \in {"complete_feedback_request", "cancel_feedback_request"}
             /\ last'.status = OK) =>
            \A c \in {last'.caller}, r \in {last'.arg} :
               (complete_feedback_request(c, r) \/ cancel_feedback_request(c, r)) =>
                  requests'[r].status # PENDING]_vars

(* the employee has created a new request after cancelling the first one:  *)
(* the first is still cancelled, the new one is pending                    *)
C21_Witness ==
    /\ last.op = "create_feedback_request"
    /\ last.status = OK
    /\ Len(requests) = 2
    /\ requests[1].status = CANCELLED
    /\ requests[1].completed_at = NULL
    /\ requests[2].status = PENDING
    /\ requests[2].employee_id = requests[1].employee_id
    /\ requests[2].manager_id = requests[1].manager_id

(* C22: no step removes a feedback record or a feedback request or changes  *)
(* its id, employee_id or manager_id: both tables only grow, a successful   *)
(* cancel_feedback_request keeps its row with status cancelled, and an      *)
(* update_current_user call leaves both tables as they were.                *)
C22_RecordsKept ==
    [][/\ \A i \in DOMAIN feedback :
            /\ i \in DOMAIN feedback'
            /\ feedback'[i].id = feedback[i].id
            /\ feedback'[i].employee_id = feedback[i].employee_id
            /\ feedback'[i].manager_id = feedback[i].manager_id
       /\ \A i \in DOMAIN requests :
            /\ i \in DOMAIN requests'
            /\ requests'[i].id = requests[i].id
            /\ requests'[i].employee_id = requests[i].employee_id
            /\ requests'[i].manager_id = requests[i].manager_id
       /\ (last'.op = "cancel_feedback_request" /\ last'.status = OK) =>
            \A c \in {last'.caller}, r \in {last'.arg} :
               cancel_feedback_request(c, r) =>
                  /\ Len(requests') = Len(requests)
                  /\ requests'[r].status = CANCELLED
       /\ last'.op = "update_current_user" =>
            \A c \in {last'.caller}, u \in ManagerUpdates :
               update_current_user(c, u) => UNCHANGED <<feedback, requests>>]_vars

(* an employee who has moved to another manager, with a cancelled request  *)
(* to the former manager still in the table                                *)
C22_Witness ==
    /\ last.op = "update_current_user"
    /\ last.status = OK
    /\ \E i \in DOMAIN requests :
          /\ requests[i].status = CANCELLED
          /\ requests[i].employee_id = last.caller
          /\ users[last.caller].manager_id # NULL
          /\ users[last.caller].manager_id # requests[i].manager_id

====
